---------------------------- MODULE Spec2Model ----------------------------
(***************************************************************************)
(* Model of src/app.py: a Telegram bot (python-telegram-bot v20) with two  *)
(* ConversationHandlers (registration and plan) over two JSON documents    *)
(* (models.json, uploads.json), and a Flask status surface reading the     *)
(* same documents.                                                         *)
(*                                                                         *)
(* A text is a sequence of one-character strings, so that slugify can be   *)
(* computed character by character as the code does.                       *)
(***************************************************************************)
EXTENDS Integers, Sequences, FiniteSets, TLC

(***************************************************************************)
(* Bounds of the model.                                                    *)
(***************************************************************************)
\* number of requests (chat updates and web requests) processed in a run
MaxEvents == 6
\* the clock advances in whole days, from day 0 to day MaxClock
MaxClock == 1

\* updates and requests processed while the committing handlers are followed in steps
MaxStoreEvents == 2

\* length of the strings slugify is applied to on its own
MaxLen == 5

(***************************************************************************)
(* Characters.                                                             *)
(***************************************************************************)
UpperLetters ==
    <<"A","B","C","D","E","F","G","H","I","J","K","L","M",
      "N","O","P","Q","R","S","T","U","V","W","X","Y","Z","Ú">>

LowerLetters ==
    <<"a","b","c","d","e","f","g","h","i","j","k","l","m",
      "n","o","p","q","r","s","t","u","v","w","x","y","z","ú">>

DigitChars == <<"0","1","2","3","4","5","6","7","8","9">>

Range(f) == { f[i] : i \in DOMAIN f }

\* str.isdigit for one character
IsDigit(ch) == ch \in Range(DigitChars)

\* str.isalnum for one character (accented letters are alphanumeric)
IsAlnum(ch) == ch \in Range(UpperLetters) \cup Range(LowerLetters) \cup Range(DigitChars)

\* the characters str.strip() removes
Whitespace == {" ", "\t", "\n"}

\* the characters slugify turns into a hyphen
HyphenMapped == {" ", ".", "/", "\\", "|", ":", ";", ",", "+", "&"}

\* the characters slugify passes through
PassThrough == {"_", "-"}

\* str.lower for one character
LowerChar(ch) ==
    IF ch \in Range(UpperLetters)
    THEN LowerLetters[CHOOSE i \in DOMAIN UpperLetters : UpperLetters[i] = ch]
    ELSE ch

\* str.lower
Lower(s) == [i \in 1..Len(s) |-> LowerChar(s[i])]

RECURSIVE LStrip(_, _)
\* str.lstrip(chars)
LStrip(s, chars) ==
    IF s # <<>> /\ Head(s) \in chars THEN LStrip(Tail(s), chars) ELSE s

RECURSIVE RStrip(_, _)
\* str.rstrip(chars)
RStrip(s, chars) ==
    IF s # <<>> /\ s[Len(s)] \in chars
    THEN RStrip(SubSeq(s, 1, Len(s) - 1), chars)
    ELSE s

\* str.strip(): leading and trailing whitespace removed
Strip(s) == RStrip(LStrip(s, Whitespace), Whitespace)

RECURSIVE SlugChars(_)
\* the character loop of slugify
SlugChars(s) ==
    IF s = <<>> THEN <<>>
    ELSE LET ch == Head(s)
             rest == SlugChars(Tail(s))
         IN  IF IsAlnum(ch) THEN <<ch>> \o rest
             ELSE IF ch \in HyphenMapped THEN <<"-">> \o rest
             ELSE IF ch \in PassThrough THEN <<ch>> \o rest
             ELSE rest

\* "--" in res
HasDoubleHyphen(s) == \E i \in 1..(Len(s) - 1) : s[i] = "-" /\ s[i + 1] = "-"

RECURSIVE ReplaceDoubleHyphen(_)
\* res.replace("--", "-"): one left-to-right pass over non-overlapping pairs
ReplaceDoubleHyphen(s) ==
    IF Len(s) < 2 THEN s
    ELSE IF s[1] = "-" /\ s[2] = "-"
         THEN <<"-">> \o ReplaceDoubleHyphen(SubSeq(s, 3, Len(s)))
         ELSE <<s[1]>> \o ReplaceDoubleHyphen(Tail(s))

\* if "--" in res: res = res.replace("--", "-"), once
CollapseHyphens_OnePass(s) == ReplaceDoubleHyphen(s)

RECURSIVE CollapseHyphens(_)
\* while "--" in res: res = res.replace("--", "-")
CollapseHyphens(s) ==
    IF HasDoubleHyphen(s) THEN CollapseHyphens(ReplaceDoubleHyphen(s)) ELSE s

\* slugify(s)
slugify(s) ==
    RStrip(LStrip(CollapseHyphens(SlugChars(Lower(Strip(s)))), {"-"}), {"-"})

RECURSIVE Split(_, _)
\* str.split(sep) for a one-character separator
Split(s, sep) ==
    IF \A i \in 1..Len(s) : s[i] # sep THEN <<s>>
    ELSE LET k == CHOOSE i \in 1..Len(s) :
                     s[i] = sep /\ \A j \in 1..(i - 1) : s[j] # sep
         IN  <<SubSeq(s, 1, k - 1)>> \o Split(SubSeq(s, k + 1, Len(s)), sep)

RECURSIVE IntToStr(_)
\* str(n) for a natural number
IntToStr(n) ==
    IF n < 10 THEN <<DigitChars[n + 1]>>
    ELSE IntToStr(n \div 10) \o <<DigitChars[(n % 10) + 1]>>

\* two decimal digits, zero padded (strftime %m, %d)
TwoDigits(n) == <<DigitChars[(n \div 10) + 1], DigitChars[(n % 10) + 1]>>

(***************************************************************************)
(* State.                                                                  *)
(***************************************************************************)
VARIABLES
    register_conv,  \* register_conv's conversations: user -> state, NoState when absent
    plan_conv,      \* plan_conv's conversations: user -> state, NoState when absent
    user_data,      \* context.user_data of each user: key -> text
    modelsFile,     \* MODELS_FILE: [exists, content], content a mapping id -> profile
    uploadsFile,    \* UPLOADS_FILE: [exists, content], content a record with an items list
    now,            \* the UTC clock, in days since 1970-01-01
    output,         \* what the last step emitted: a chat reply, an exception, a web response
    nEvents,        \* number of chat updates and web requests processed so far
    saving,         \* per user, the committing handler it is inside: between load and os.replace
    probe           \* argument and results of a function applied on its own

vars == <<register_conv, plan_conv, user_data, modelsFile, uploadsFile, now, output, nEvents,
          saving, probe>>

\* the chat users (private chats: one conversation key per user)
Users == {"u1"}

S_MODEL_NAME == 0
S_COUNTRY == 1
S_AGE == 2
S_TAGS == 3
S_TYPE == 4
S_CATEGORY == 5

\* ConversationHandler.END: the conversation key is removed
NoState == -1

WASABI_BUCKET == "sensutv-media"
WASABI_REGION == "eu-central-2"

\* the empty dict
EmptyMap == [k \in {} |-> <<>>]

\* d[k] = v on a copy of dict d
DictSet(d, k, v) == (k :> v) @@ d

\* d.get(k, default)
DictGet(d, k, default) == IF k \in DOMAIN d THEN d[k] ELSE default

(***************************************************************************)
(* The text messages a user may send.  Each one exercises several cases:   *)
(*   "Video"  a name with id "video"; a valid type after normalization     *)
(*   "Foto,"  a name with id "foto"; a valid type; one tag                 *)
(*   "!"      normalizes to the empty string                               *)
(*   "7"      digits (an age); an id; not a valid type                     *)
(***************************************************************************)
TextVideo == <<"V","i","d","e","o">>
TextFoto == <<"F","o","t","o",",">>
TextBang == <<"!">>
TextSeven == <<"7">>

Texts == {TextVideo, TextFoto, TextBang, TextSeven}

(***************************************************************************)
(* Clock.                                                                  *)
(***************************************************************************)
\* datetime.utcnow().strftime("%Y-%m-%d"), for the days of January 1970
now_yyyymmdd(t) == <<"1","9","7","0","-","0","1","-">> \o TwoDigits(t + 1)

\* datetime.utcnow().isoformat() + "Z"
now_iso(t) == now_yyyymmdd(t) \o <<"T","0","0",":","0","0",":","0","0","Z">>

\* int(time.time())
time_time(t) == t * 86400

(***************************************************************************)
(* Record Store.                                                           *)
(***************************************************************************)
\* without the except branch: whatever the file holds is returned
_load_json_Unguarded(file, default, readOk) == file.content

\* _load_json: the default when the file is absent or reading it raises
_load_json(file, default, readOk) ==
    IF ~file.exists THEN default
    ELSE IF readOk THEN file.content
    ELSE default

\* json.dump of a dict: the members of the JSON object, one <<key, value>> each
RECURSIVE Members(_, _)
Members(d, keys) ==
    IF keys = {} THEN <<>>
    ELSE LET k == CHOOSE x \in keys : TRUE
         IN  <<<<k, d[k]>>>> \o Members(d, keys \ {k})

json_dump(d) == Members(d, DOMAIN d)

\* json.load of an object: a dict built member by member
RECURSIVE json_load(_)
json_load(text) ==
    IF text = <<>> THEN EmptyMap
    ELSE LET member == text[Len(text)]
         IN  DictSet(json_load(SubSeq(text, 1, Len(text) - 1)), member[1], member[2])

\* _save_json: the data is dumped to the temporary file, which replaces the
\* target; content is the document json.load reads from the file
_save_json(data) == [exists |-> TRUE, content |-> json_load(json_dump(data))]

load_models(readOk) == _load_json(modelsFile, EmptyMap, readOk)

load_uploads(readOk) == _load_json(uploadsFile, [items |-> <<>>], readOk)

NoFile(default) == [exists |-> FALSE, content |-> default]

(***************************************************************************)
(* Outputs of a step.                                                      *)
(***************************************************************************)
NoOutput == [chan |-> "none", to |-> "", what |-> "", models |-> EmptyMap, items |-> <<>>]

\* update.message.reply_text(...): what names the message, models and items its listing
ReplyWith(u, what, models, items) ==
    [chan |-> "chat", to |-> u, what |-> what, models |-> models, items |-> items]

Reply(u, what) == ReplyWith(u, what, EmptyMap, <<>>)

\* an exception leaves the handler: the update is aborted, nothing is replied
Raised(u, exc) == [chan |-> "raise", to |-> u, what |-> exc, models |-> EmptyMap, items |-> <<>>]

\* jsonify(...) / render_template_string(...)
Response(route, models, items) ==
    [chan |-> "web", to |-> "", what |-> route, models |-> models, items |-> items]

\* list(reversed(xs))
Reversed(xs) == [i \in 1..Len(xs) |-> xs[Len(xs) + 1 - i]]

\* xs[:n]
Take(xs, n) == SubSeq(xs, 1, IF Len(xs) < n THEN Len(xs) ELSE n)

(***************************************************************************)
(* Command Dispatcher: Application.process_update runs the first handler   *)
(* of the group whose check_update accepts the update.  The handlers, in   *)
(* the order main() adds them: start, models, last, register_conv,         *)
(* plan_conv.                                                              *)
(***************************************************************************)
Command(name) == [cmd |-> name, text |-> <<>>]

TextMessage(t) == [cmd |-> "", text |-> t]

\* ConversationHandler.check_update with allow_reentry=True and every state
\* handler a MessageHandler(filters.TEXT & ~filters.COMMAND):
\* entry points first, then the handlers of the current state, then fallbacks
ConvCheck(state, entryCmd, textStates, fallbackCmd, upd) ==
    IF upd.cmd = entryCmd THEN "entry"
    ELSE IF state = NoState THEN "none"
    ELSE IF upd.cmd = "" /\ state \in textStates THEN "state"
    ELSE IF upd.cmd = fallbackCmd THEN "fallback"
    ELSE "none"

RegisterCheck(u, upd) ==
    ConvCheck(register_conv[u], "register",
              {S_MODEL_NAME, S_COUNTRY, S_AGE, S_TAGS}, "cancel", upd)

PlanCheck(u, upd) ==
    ConvCheck(plan_conv[u], "plan",
              {S_MODEL_NAME, S_TYPE, S_CATEGORY}, "cancel", upd)

\* the handler that processes the update: <<handler, role>>
Selected(u, upd) ==
    IF upd.cmd \in {"start", "models", "last"} THEN <<upd.cmd, "command">>
    ELSE IF RegisterCheck(u, upd) # "none" THEN <<"register_conv", RegisterCheck(u, upd)>>
    ELSE IF PlanCheck(u, upd) # "none" THEN <<"plan_conv", PlanCheck(u, upd)>>
    ELSE <<"", "none">>

\* one more request is processed, from its arrival to its end
Event ==
    /\ nEvents < MaxEvents
    /\ nEvents' = nEvents + 1
    /\ UNCHANGED <<saving, probe>>

(***************************************************************************)
(* Plain commands.                                                         *)
(***************************************************************************)
cmd_start(u) ==
    /\ Event
    /\ Selected(u, Command("start")) = <<"start", "command">>
    /\ output' = Reply(u, "start")
    /\ UNCHANGED <<register_conv, plan_conv, user_data, modelsFile, uploadsFile, now>>

cmd_models(u, readOk) ==
    /\ Event
    /\ Selected(u, Command("models")) = <<"models", "command">>
    /\ LET models == load_models(readOk)
       IN  output' = IF models = EmptyMap
                     THEN Reply(u, "no_models")
                     ELSE ReplyWith(u, "models", models, <<>>)
    /\ UNCHANGED <<register_conv, plan_conv, user_data, modelsFile, uploadsFile, now>>

cmd_last(u, readOk) ==
    /\ Event
    /\ Selected(u, Command("last")) = <<"last", "command">>
    /\ LET uploads == load_uploads(readOk).items
       IN  output' = IF uploads = <<>>
                     THEN Reply(u, "no_uploads")
                     ELSE ReplyWith(u, "last", EmptyMap, Take(Reversed(uploads), 10))
    /\ UNCHANGED <<register_conv, plan_conv, user_data, modelsFile, uploadsFile, now>>

(***************************************************************************)
(* Registration flow.                                                      *)
(***************************************************************************)
\* "".join([c for c in txt if c.isdigit()]), "?" when empty
AgeOf(txt) ==
    LET age == SelectSeq(txt, IsDigit)
    IN  IF age # <<>> THEN age ELSE <<"?">>

\* [slugify(x) for x in raw.split(",") if x.strip()]
TagsOf(raw) ==
    LET parts == SelectSeq(Split(raw, ","), LAMBDA x : Strip(x) # <<>>)
    IN  [i \in 1..Len(parts) |-> slugify(parts[i])]

\* the identifier without the synthetic fallback
ModelIdOf_NoFallback(name, t) == slugify(name)

\* slugify(name) or f"model-{int(time.time())}"
ModelIdOf(name, t) ==
    IF slugify(name) # <<>>
    THEN slugify(name)
    ELSE <<"m","o","d","e","l","-">> \o IntToStr(time_time(t))

\* the profile register_tags stores under model_id
ModelProfile(model_id, name, country, age, tags, t) ==
    [id |-> model_id, name |-> name, country |-> country, age |-> age,
     tags |-> tags, created_at |-> now_iso(t)]

register_start(u) ==
    /\ Event
    /\ Selected(u, Command("register")) = <<"register_conv", "entry">>
    /\ output' = Reply(u, "ask_name")
    /\ register_conv' = [register_conv EXCEPT ![u] = S_MODEL_NAME]
    /\ UNCHANGED <<plan_conv, user_data, modelsFile, uploadsFile, now>>

register_model_name(u, text) ==
    /\ Event
    /\ Selected(u, TextMessage(text)) = <<"register_conv", "state">>
    /\ register_conv[u] = S_MODEL_NAME
    /\ user_data' = [user_data EXCEPT ![u] = DictSet(@, "model_name", Strip(text))]
    /\ output' = Reply(u, "ask_country")
    /\ register_conv' = [register_conv EXCEPT ![u] = S_COUNTRY]
    /\ UNCHANGED <<plan_conv, modelsFile, uploadsFile, now>>

register_country(u, text) ==
    /\ Event
    /\ Selected(u, TextMessage(text)) = <<"register_conv", "state">>
    /\ register_conv[u] = S_COUNTRY
    /\ user_data' = [user_data EXCEPT ![u] = DictSet(@, "country", Strip(text))]
    /\ output' = Reply(u, "ask_age")
    /\ register_conv' = [register_conv EXCEPT ![u] = S_AGE]
    /\ UNCHANGED <<plan_conv, modelsFile, uploadsFile, now>>

register_age(u, text) ==
    /\ Event
    /\ Selected(u, TextMessage(text)) = <<"register_conv", "state">>
    /\ register_conv[u] = S_AGE
    /\ user_data' = [user_data EXCEPT ![u] = DictSet(@, "age", AgeOf(Strip(text)))]
    /\ output' = Reply(u, "ask_tags")
    /\ register_conv' = [register_conv EXCEPT ![u] = S_TAGS]
    /\ UNCHANGED <<plan_conv, modelsFile, uploadsFile, now>>

\* the models document register_tags saves
RegisteredModels(models, model_id, profile) == DictSet(models, model_id, profile)

register_tags(u, text, readOk) ==
    /\ Event
    /\ Selected(u, TextMessage(text)) = <<"register_conv", "state">>
    /\ register_conv[u] = S_TAGS
    /\ LET tags == TagsOf(Strip(text))
           name == Strip(DictGet(user_data[u], "model_name", <<>>))
           country == Strip(DictGet(user_data[u], "country", <<>>))
           age == DictGet(user_data[u], "age", <<"?">>)
           model_id == ModelIdOf(name, now)
           models == load_models(readOk)
           profile == ModelProfile(model_id, name, country, age, tags, now)
       IN  /\ modelsFile' = _save_json(RegisteredModels(models, model_id, profile))
           /\ output' = ReplyWith(u, "registered", (model_id :> profile), <<>>)
    /\ user_data' = [user_data EXCEPT ![u] = EmptyMap]
    /\ register_conv' = [register_conv EXCEPT ![u] = NoState]
    /\ UNCHANGED <<plan_conv, uploadsFile, now>>

(***************************************************************************)
(* Plan flow.                                                              *)
(***************************************************************************)
\* the values plan_type accepts
PlanTypes == {<<"v","i","d","e","o">>, <<"f","o","t","o">>}

\* slugify(...) or fallback
SlugOr(s, fallback) == IF slugify(s) # <<>> THEN slugify(s) ELSE fallback

\* f"{country}/{model_id}/{t}/{cat}/{date}/"
PlanPath(country, model_id, t, cat, date) ==
    country \o <<"/">> \o model_id \o <<"/">> \o t \o <<"/">> \o cat
            \o <<"/">> \o date \o <<"/">>

\* the character U+2022 of the item title, written as a token
Bullet == "U+2022"

\* the item plan_category appends
UploadRecord(m, model_id, t, cat, clock) ==
    [bucket |-> WASABI_BUCKET,
     region |-> WASABI_REGION,
     model_id |-> model_id,
     model_name |-> m.name,
     country |-> m.country,
     type |-> t,
     category |-> cat,
     date |-> now_yyyymmdd(clock),
     title |-> m.name \o <<" ", Bullet, " ">> \o t \o <<" ", Bullet, " ">> \o cat,
     path |-> PlanPath(SlugOr(m.country, <<"u","n","k","n","o","w","n">>),
                       model_id, t, cat, now_yyyymmdd(clock)),
     created_at |-> now_iso(clock)]

plan_start(u, readOk) ==
    /\ Event
    /\ Selected(u, Command("plan")) = <<"plan_conv", "entry">>
    /\ LET models == load_models(readOk)
       IN  IF models = EmptyMap
           THEN /\ output' = Reply(u, "register_first")
                /\ plan_conv' = [plan_conv EXCEPT ![u] = NoState]
           ELSE /\ output' = ReplyWith(u, "pick_model", models, <<>>)
                /\ plan_conv' = [plan_conv EXCEPT ![u] = S_MODEL_NAME]
    /\ UNCHANGED <<register_conv, user_data, modelsFile, uploadsFile, now>>

plan_pick_model(u, text, readOk) ==
    /\ Event
    /\ Selected(u, TextMessage(text)) = <<"plan_conv", "state">>
    /\ plan_conv[u] = S_MODEL_NAME
    /\ LET model_id == slugify(Strip(text))
           models == load_models(readOk)
       IN  IF model_id \notin DOMAIN models
           THEN /\ output' = Reply(u, "invalid_id")
                /\ plan_conv' = [plan_conv EXCEPT ![u] = S_MODEL_NAME]
                /\ UNCHANGED user_data
           ELSE /\ user_data' = [user_data EXCEPT ![u] = DictSet(@, "plan_model_id", model_id)]
                /\ output' = Reply(u, "ask_type")
                /\ plan_conv' = [plan_conv EXCEPT ![u] = S_TYPE]
    /\ UNCHANGED <<register_conv, modelsFile, uploadsFile, now>>

plan_type(u, text) ==
    /\ Event
    /\ Selected(u, TextMessage(text)) = <<"plan_conv", "state">>
    /\ plan_conv[u] = S_TYPE
    /\ LET t == slugify(Strip(text))
       IN  IF t \notin PlanTypes
           THEN /\ output' = Reply(u, "only_video_or_foto")
                /\ plan_conv' = [plan_conv EXCEPT ![u] = S_TYPE]
                /\ UNCHANGED user_data
           ELSE /\ user_data' = [user_data EXCEPT ![u] = DictSet(@, "plan_type", t)]
                /\ output' = Reply(u, "ask_category")
                /\ plan_conv' = [plan_conv EXCEPT ![u] = S_CATEGORY]
    /\ UNCHANGED <<register_conv, modelsFile, uploadsFile, now>>

\* the uploads document plan_category saves
AppendedUploads(uploads, item) == [uploads EXCEPT !.items = Append(@, item)]

plan_category(u, text, modelsReadOk, uploadsReadOk) ==
    /\ Event
    /\ Selected(u, TextMessage(text)) = <<"plan_conv", "state">>
    /\ plan_conv[u] = S_CATEGORY
    /\ LET cat == SlugOr(Strip(text), <<"g","e","n","e","r","a","l">>)
           models == load_models(modelsReadOk)
       IN  IF \/ "plan_model_id" \notin DOMAIN user_data[u]
              \/ "plan_type" \notin DOMAIN user_data[u]
              \/ user_data[u]["plan_model_id"] \notin DOMAIN models
           THEN \* KeyError: the handler is aborted before anything is written
                /\ output' = Raised(u, "KeyError")
                /\ UNCHANGED <<plan_conv, user_data, uploadsFile>>
           ELSE LET model_id == user_data[u]["plan_model_id"]
                    t == user_data[u]["plan_type"]
                    item == UploadRecord(models[model_id], model_id, t, cat, now)
                    uploads == load_uploads(uploadsReadOk)
                IN  /\ uploadsFile' = _save_json(AppendedUploads(uploads, item))
                    /\ output' = ReplyWith(u, "path", EmptyMap, <<item>>)
                    /\ user_data' = [user_data EXCEPT ![u] = EmptyMap]
                    /\ plan_conv' = [plan_conv EXCEPT ![u] = NoState]
    /\ UNCHANGED <<register_conv, modelsFile, now>>

(***************************************************************************)
(* Cancel: the fallback of both conversation handlers.  It runs in the     *)
(* first handler that has a conversation for the user, and ends only that  *)
(* conversation.                                                           *)
(***************************************************************************)
cancel(u) ==
    /\ Event
    /\ Selected(u, Command("cancel"))[2] = "fallback"
    /\ user_data' = [user_data EXCEPT ![u] = EmptyMap]
    /\ output' = Reply(u, "cancelled")
    /\ IF Selected(u, Command("cancel"))[1] = "register_conv"
       THEN register_conv' = [register_conv EXCEPT ![u] = NoState] /\ UNCHANGED plan_conv
       ELSE plan_conv' = [plan_conv EXCEPT ![u] = NoState] /\ UNCHANGED register_conv
    /\ UNCHANGED <<modelsFile, uploadsFile, now>>

\* a catch-all handler answers the update
Unhandled_Replies(u, upd) ==
    /\ Event
    /\ Selected(u, upd) = <<"", "none">>
    /\ output' = Reply(u, "unknown")
    /\ UNCHANGED <<register_conv, plan_conv, user_data, modelsFile, uploadsFile, now>>

\* an update no handler accepts (a text or /cancel while no conversation is active)
Unhandled(u, upd) ==
    /\ Event
    /\ Selected(u, upd) = <<"", "none">>
    /\ output' = NoOutput
    /\ UNCHANGED <<register_conv, plan_conv, user_data, modelsFile, uploadsFile, now>>

(***************************************************************************)
(* Status surface (Flask thread): reads only.                              *)
(***************************************************************************)
home(readOk) ==
    /\ Event
    /\ output' = Response("/", EmptyMap, Take(Reversed(load_uploads(readOk).items), 6))
    /\ UNCHANGED <<register_conv, plan_conv, user_data, modelsFile, uploadsFile, now>>

api_models(readOk) ==
    /\ Event
    /\ output' = Response("/api/models", load_models(readOk), <<>>)
    /\ UNCHANGED <<register_conv, plan_conv, user_data, modelsFile, uploadsFile, now>>

api_uploads(readOk) ==
    /\ Event
    /\ output' = Response("/api/uploads", EmptyMap, load_uploads(readOk).items)
    /\ UNCHANGED <<register_conv, plan_conv, user_data, modelsFile, uploadsFile, now>>

feed(readOk) ==
    /\ Event
    /\ output' = Response("/feed", EmptyMap, Reversed(load_uploads(readOk).items))
    /\ UNCHANGED <<register_conv, plan_conv, user_data, modelsFile, uploadsFile, now>>

\* a day passes
Tick ==
    /\ now < MaxClock
    /\ now' = now + 1
    /\ UNCHANGED <<register_conv, plan_conv, user_data, modelsFile, uploadsFile, output, nEvents,
                   saving, probe>>

(***************************************************************************)
(* A committing handler taken in steps (register_tags, plan_category):     *)
(* load the document, write the temporary file, os.replace it over the     *)
(* target, then reply and end the conversation.                            *)
(***************************************************************************)
\* a document of either kind
Doc(models, items) == [models |-> models, items |-> items]

\* no committing handler is running for the user
NoSaving == [stage |-> "none", kind |-> "", old |-> Doc(EmptyMap, <<>>),
             new |-> Doc(EmptyMap, <<>>), reply |-> NoOutput]

\* no function has been applied
NoProbe == [fn |-> "", arg |-> <<>>, once |-> <<>>, twice |-> <<>>]

(***************************************************************************)
(* Initial states: the process starts with no conversation.  The data      *)
(* directory is persistent, so the documents are either absent (first      *)
(* start) or hold what an earlier run of the bot saved: one registration,  *)
(* or one registration and one planned upload for it.                      *)
(***************************************************************************)
EarlierModels ==
    LET name == TextVideo
    IN  (ModelIdOf(name, 0) :>
            ModelProfile(ModelIdOf(name, 0), name, TextBang, AgeOf(TextSeven),
                         TagsOf(TextFoto), 0))

EarlierUploads ==
    LET model_id == ModelIdOf(TextVideo, 0)
    IN  [items |-> <<UploadRecord(EarlierModels[model_id], model_id,
                                  slugify(TextFoto), slugify(TextSeven), 0)>>]

Init ==
    /\ register_conv = [u \in Users |-> NoState]
    /\ plan_conv = [u \in Users |-> NoState]
    /\ user_data = [u \in Users |-> EmptyMap]
    /\ \/ modelsFile = NoFile(EmptyMap) /\ uploadsFile = NoFile([items |-> <<>>])
       \/ modelsFile = _save_json(EarlierModels) /\ uploadsFile = NoFile([items |-> <<>>])
       \/ modelsFile = _save_json(EarlierModels) /\ uploadsFile = _save_json(EarlierUploads)
    /\ now = 0
    /\ output = NoOutput
    /\ nEvents = 0
    /\ saving = [u \in Users |-> NoSaving]
    /\ probe = NoProbe

Next ==
    \/ \E u \in Users : cmd_start(u)
    \/ \E u \in Users, readOk \in BOOLEAN : cmd_models(u, readOk)
    \/ \E u \in Users, readOk \in BOOLEAN : cmd_last(u, readOk)
    \/ \E u \in Users : register_start(u)
    \/ \E u \in Users, text \in Texts : register_model_name(u, text)
    \/ \E u \in Users, text \in Texts : register_country(u, text)
    \/ \E u \in Users, text \in Texts : register_age(u, text)
    \/ \E u \in Users, text \in Texts, readOk \in BOOLEAN : register_tags(u, text, readOk)
    \/ \E u \in Users, readOk \in BOOLEAN : plan_start(u, readOk)
    \/ \E u \in Users, text \in Texts, readOk \in BOOLEAN : plan_pick_model(u, text, readOk)
    \/ \E u \in Users, text \in Texts : plan_type(u, text)
    \/ \E u \in Users, text \in Texts, modelsReadOk \in BOOLEAN, uploadsReadOk \in BOOLEAN :
          plan_category(u, text, modelsReadOk, uploadsReadOk)
    \/ \E u \in Users : cancel(u)
    \/ \E u \in Users, upd \in {Command("cancel")} \cup {TextMessage(t) : t \in Texts} :
          Unhandled(u, upd)
    \/ \E readOk \in BOOLEAN : home(readOk)
    \/ \E readOk \in BOOLEAN : api_models(readOk)
    \/ \E readOk \in BOOLEAN : api_uploads(readOk)
    \/ \E readOk \in BOOLEAN : feed(readOk)
    \/ Tick

Spec == Init /\ [][Next]_vars

(***************************************************************************)
(* Vocabulary of the properties.                                           *)
(***************************************************************************)
RegistrationSteps == {S_MODEL_NAME, S_COUNTRY, S_AGE, S_TAGS}

PlanSteps == {S_MODEL_NAME, S_TYPE, S_CATEGORY}

InRegistration(u) == register_conv[u] # NoState

InPlan(u) == plan_conv[u] # NoState

Idle(u) == ~InRegistration(u) /\ ~InPlan(u)

\* the models mapping and the upload list as stored
Models == modelsFile.content

Items == uploadsFile.content.items

\* user u sends the text message, whichever handler receives it; the reads
\* of the documents made while handling it succeed or fail as given
SendsText(u, text, modelsReadOk, uploadsReadOk) ==
    \/ register_model_name(u, text)
    \/ register_country(u, text)
    \/ register_age(u, text)
    \/ register_tags(u, text, modelsReadOk)
    \/ plan_pick_model(u, text, modelsReadOk)
    \/ plan_type(u, text)
    \/ plan_category(u, text, modelsReadOk, uploadsReadOk)
    \/ Unhandled(u, TextMessage(text))

\* user u sends /cancel
SendsCancel(u) == cancel(u) \/ Unhandled(u, Command("cancel"))

(***************************************************************************)
(* C1.  For every user, in every reachable state, exactly one of idle,     *)
(* registration at a step, plan at a step holds: each conversation is      *)
(* absent or at one of its steps, and a user is never at a registration    *)
(* step and at a plan step at the same time.                               *)
(***************************************************************************)
C1_ExactlyOneFlow ==
    \A u \in Users :
        /\ register_conv[u] \in RegistrationSteps \cup {NoState}
        /\ plan_conv[u] \in PlanSteps \cup {NoState}
        /\ ~(InRegistration(u) /\ InPlan(u))

(***************************************************************************)
(* C2.  A /cancel sent by a user who is in any non-idle state leaves that  *)
(* user idle, with no flow active at all, and with an empty scratch        *)
(* mapping.                                                                *)
(***************************************************************************)
C2_CancelForcesIdle ==
    [][\A u \in Users :
          (~Idle(u) /\ SendsCancel(u)) =>
              (register_conv'[u] = NoState /\ plan_conv'[u] = NoState
                  /\ user_data'[u] = EmptyMap)]_vars

(***************************************************************************)
(* C3.  A flow's entry command sent while that same flow is at one of its  *)
(* steps restarts the flow at its first step, leaves in the scratch        *)
(* mapping none of the values collected before it, and commits no record.  *)
(* (Stated for the case where the documents can be read.)                  *)
(***************************************************************************)
C3_RestartDiscardsScratch ==
    [][\A u \in Users :
          /\ (InRegistration(u) /\ register_start(u)) =>
                 /\ register_conv'[u] = S_MODEL_NAME
                 /\ \A k \in DOMAIN user_data[u] : k \notin DOMAIN user_data'[u]
                 /\ UNCHANGED <<modelsFile, uploadsFile>>
          /\ (InPlan(u) /\ plan_start(u, TRUE)) =>
                 /\ plan_conv'[u] = S_MODEL_NAME
                 /\ \A k \in DOMAIN user_data[u] : k \notin DOMAIN user_data'[u]
                 /\ UNCHANGED <<modelsFile, uploadsFile>>]_vars

(***************************************************************************)
(* C4.  While the user's plan flow is at pick_model, a text whose          *)
(* normalized form is not a key of the current models mapping leaves the   *)
(* user at pick_model with scratch data and both documents unchanged; a    *)
(* text whose normalized form is a key (in particular one registered since *)
(* it was rejected) stores that identifier in scratch and advances to      *)
(* pick_type.  (Stated for the case where the documents can be read.)      *)
(***************************************************************************)
C4_PickModelValidates ==
    [][\A u \in Users, text \in Texts :
          (plan_conv[u] = S_MODEL_NAME /\ SendsText(u, text, TRUE, TRUE)) =>
              IF slugify(text) \in DOMAIN Models
              THEN /\ plan_conv'[u] = S_TYPE
                   /\ user_data'[u] = DictSet(user_data[u], "plan_model_id", slugify(text))
              ELSE /\ plan_conv'[u] = S_MODEL_NAME
                   /\ UNCHANGED <<user_data, modelsFile, uploadsFile>>]_vars

(***************************************************************************)
(* C5.  While the user's plan flow is at pick_type, the user advances to   *)
(* pick_category if and only if the normalized input is exactly "video"    *)
(* or "foto"; every other input leaves the user at pick_type with scratch  *)
(* data and both documents unchanged.                                      *)
(***************************************************************************)
C5_PickTypeAcceptsVideoFoto ==
    [][\A u \in Users, text \in Texts :
          (plan_conv[u] = S_TYPE /\ SendsText(u, text, TRUE, TRUE)) =>
              IF slugify(text) \in {<<"v","i","d","e","o">>, <<"f","o","t","o">>}
              THEN plan_conv'[u] = S_CATEGORY
              ELSE /\ plan_conv'[u] = S_TYPE
                   /\ UNCHANGED <<user_data, modelsFile, uploadsFile>>]_vars

(***************************************************************************)
(* C6.  While the user's registration flow is open, each text advances it  *)
(* one step, name -> country -> age -> tags, storing the answer and        *)
(* writing no document before the tags step; the text sent at the tags     *)
(* step commits exactly one ModelProfile under the identifier derived from *)
(* the name, holding the name, country, age and tags answered, and then    *)
(* leaves the user idle with an empty scratch mapping.  (Stated for the    *)
(* case where the documents can be read.)                                  *)
(***************************************************************************)
C6_RegistrationCommits ==
    [][\A u \in Users, text \in Texts :
          (InRegistration(u) /\ SendsText(u, text, TRUE, TRUE)) =>
              LET answers == user_data[u]
                  name == DictGet(answers, "model_name", <<>>)
                  id == IF slugify(name) # <<>>
                        THEN slugify(name)
                        ELSE <<"m","o","d","e","l","-">> \o IntToStr(now * 86400)
              IN
              CASE register_conv[u] = S_MODEL_NAME ->
                       /\ register_conv'[u] = S_COUNTRY
                       /\ user_data'[u] = DictSet(answers, "model_name", Strip(text))
                       /\ UNCHANGED <<modelsFile, uploadsFile>>
                [] register_conv[u] = S_COUNTRY ->
                       /\ register_conv'[u] = S_AGE
                       /\ user_data'[u] = DictSet(answers, "country", Strip(text))
                       /\ UNCHANGED <<modelsFile, uploadsFile>>
                [] register_conv[u] = S_AGE ->
                       /\ register_conv'[u] = S_TAGS
                       /\ "age" \in DOMAIN user_data'[u]
                       /\ UNCHANGED <<modelsFile, uploadsFile>>
                [] register_conv[u] = S_TAGS ->
                       /\ DOMAIN modelsFile'.content = DOMAIN Models \cup {id}
                       /\ \A k \in DOMAIN Models \ {id} : modelsFile'.content[k] = Models[k]
                       /\ modelsFile'.content[id].name = name
                       /\ modelsFile'.content[id].country = DictGet(answers, "country", <<>>)
                       /\ modelsFile'.content[id].age = DictGet(answers, "age", <<"?">>)
                       /\ modelsFile'.content[id].tags = TagsOf(text)
                       /\ UNCHANGED uploadsFile
                       /\ user_data'[u] = EmptyMap
                       /\ register_conv'[u] = NoState
                       /\ plan_conv'[u] = NoState]_vars

(***************************************************************************)
(* C7.  While the user's plan flow is at pick_category every text is       *)
(* accepted: exactly one UploadRecord is appended, whose category is the   *)
(* normalized text, or "general" when that is empty, and whose path is     *)
(* country_slug/model_id/type/category/date/ for the model and type picked *)
(* before and the current UTC date; the user is then idle with an empty    *)
(* scratch mapping.  (Stated for the case where the documents can be       *)
(* read.)                                                                  *)
(***************************************************************************)
C7_CategoryCommitsPath ==
    [][\A u \in Users, text \in Texts :
          (plan_conv[u] = S_CATEGORY /\ SendsText(u, text, TRUE, TRUE)) =>
              LET cat == IF slugify(text) # <<>>
                         THEN slugify(text)
                         ELSE <<"g","e","n","e","r","a","l">>
                  model_id == DictGet(user_data[u], "plan_model_id", <<>>)
                  type == DictGet(user_data[u], "plan_type", <<>>)
                  new == uploadsFile'.content.items
              IN  /\ Len(new) = Len(Items) + 1
                  /\ SubSeq(new, 1, Len(Items)) = Items
                  /\ new[Len(new)].category = cat
                  /\ new[Len(new)].model_id = model_id
                  /\ new[Len(new)].type = type
                  /\ model_id \in DOMAIN Models
                  /\ new[Len(new)].path =
                         SlugOr(Models[model_id].country, <<"u","n","k","n","o","w","n">>)
                             \o <<"/">> \o model_id \o <<"/">> \o type \o <<"/">> \o cat
                             \o <<"/">> \o now_yyyymmdd(now) \o <<"/">>
                  /\ user_data'[u] = EmptyMap
                  /\ register_conv'[u] = NoState
                  /\ plan_conv'[u] = NoState]_vars

(***************************************************************************)
(* C8.  The upload list is append-only: in every step, whatever the        *)
(* outcome of the reads, the saved items stay in place with the same       *)
(* values, and the list grows by at most one item, at its end, and only    *)
(* when a plan flow completes.                                             *)
(***************************************************************************)
C8_UploadsAppendOnly ==
    [][LET new == uploadsFile'.content.items
       IN  /\ Len(new) >= Len(Items)
           /\ SubSeq(new, 1, Len(Items)) = Items
           /\ Len(new) <= Len(Items) + 1
           /\ Len(new) = Len(Items) + 1 =>
                  \E u \in Users : plan_conv[u] = S_CATEGORY /\ plan_conv'[u] = NoState]_vars

(***************************************************************************)
(* C9.  A ModelProfile is never deleted: in every step, whatever the       *)
(* outcome of the reads, no identifier leaves the models mapping, and the  *)
(* profile under an identifier k changes only when a registration flow     *)
(* whose name gives the identifier k commits.                              *)
(***************************************************************************)
C9_ModelsNeverDeleted ==
    [][LET new == modelsFile'.content
       IN  /\ DOMAIN Models \subseteq DOMAIN new
           /\ \A k \in DOMAIN Models \cap DOMAIN new :
                  new[k] # Models[k] =>
                      \E u \in Users :
                          /\ register_conv[u] = S_TAGS
                          /\ register_conv'[u] = NoState
                          /\ ModelIdOf(DictGet(user_data[u], "model_name", <<>>), now) = k]_vars

(***************************************************************************)
(* C10.  Every key of the models mapping is a non-empty identifier equal   *)
(* to the id field of the profile stored under it: normalize(name) of that *)
(* profile when that is non-empty, and otherwise the synthetic identifier  *)
(* "model-<seconds>" of the time the profile was created.                  *)
(***************************************************************************)
C10_KeysAreDerivedIds ==
    \A k \in DOMAIN Models :
        /\ k # <<>>
        /\ Models[k].id = k
        /\ IF slugify(Models[k].name) # <<>>
           THEN k = slugify(Models[k].name)
           ELSE \E t \in 0..now :
                    /\ k = <<"m","o","d","e","l","-">> \o IntToStr(t * 86400)
                    /\ Models[k].created_at = now_iso(t)

\* a registration whose name normalizes to the empty string has been
\* committed, next to one whose name does not
C10_SyntheticIdCommitted ==
    /\ \E k \in DOMAIN Models : slugify(Models[k].name) = <<>>
    /\ \E k \in DOMAIN Models : slugify(Models[k].name) # <<>>

(***************************************************************************)
(* The committing handlers in steps.  The bot thread runs one handler at a *)
(* time and a committing handler has no await between its load and its     *)
(* save, so no other handler runs in between; the Flask thread serves its  *)
(* requests at any point.  A step of _save_json may raise (the directory   *)
(* is not writable, the disk is full), which aborts the handler.           *)
(***************************************************************************)
StoreUsers == {"u1", "u2"}

\* the texts sent in the window observed: one that normalizes to an identifier, one to nothing
StoreTexts == {TextFoto, TextBang}

\* the handler yields to the event loop between its load and its save
HandlerRunning_Yielding == FALSE

\* a committing handler is between its load and its save
HandlerRunning == \E u \in DOMAIN saving : saving[u].stage # "none"

\* open(path, "w"): the target itself is truncated and written
TargetWhileWriting_InPlace(file, default) == [exists |-> TRUE, content |-> default]

\* open(tmp, "w"), json.dump: the target is not touched while the data is written
TargetWhileWriting(file, default) == file

\* one more update is taken up by a committing handler
StoreEvent == nEvents < MaxStoreEvents /\ nEvents' = nEvents + 1

\* register_tags up to and including load_models()
register_tags_load(u, text, readOk) ==
    /\ StoreEvent
    /\ ~HandlerRunning
    /\ Selected(u, TextMessage(text)) = <<"register_conv", "state">>
    /\ register_conv[u] = S_TAGS
    /\ LET tags == TagsOf(Strip(text))
           name == Strip(DictGet(user_data[u], "model_name", <<>>))
           country == Strip(DictGet(user_data[u], "country", <<>>))
           age == DictGet(user_data[u], "age", <<"?">>)
           model_id == ModelIdOf(name, now)
           models == load_models(readOk)
           profile == ModelProfile(model_id, name, country, age, tags, now)
       IN  saving' = [saving EXCEPT ![u] =
                        [stage |-> "loaded", kind |-> "models",
                         old |-> Doc(load_models(TRUE), <<>>),
                         new |-> Doc(RegisteredModels(models, model_id, profile), <<>>),
                         reply |-> ReplyWith(u, "registered", (model_id :> profile), <<>>)]]
    /\ UNCHANGED <<register_conv, plan_conv, user_data, modelsFile, uploadsFile, now,
                   output, probe>>

\* plan_category up to and including load_uploads()
plan_category_load(u, text, modelsReadOk, uploadsReadOk) ==
    /\ StoreEvent
    /\ ~HandlerRunning
    /\ Selected(u, TextMessage(text)) = <<"plan_conv", "state">>
    /\ plan_conv[u] = S_CATEGORY
    /\ LET cat == SlugOr(Strip(text), <<"g","e","n","e","r","a","l">>)
           models == load_models(modelsReadOk)
       IN  IF \/ "plan_model_id" \notin DOMAIN user_data[u]
              \/ "plan_type" \notin DOMAIN user_data[u]
              \/ user_data[u]["plan_model_id"] \notin DOMAIN models
           THEN /\ output' = Raised(u, "KeyError")
                /\ UNCHANGED saving
           ELSE LET model_id == user_data[u]["plan_model_id"]
                    t == user_data[u]["plan_type"]
                    item == UploadRecord(models[model_id], model_id, t, cat, now)
                    uploads == load_uploads(uploadsReadOk)
                IN  /\ saving' = [saving EXCEPT ![u] =
                          [stage |-> "loaded", kind |-> "uploads",
                           old |-> Doc(EmptyMap, load_uploads(TRUE).items),
                           new |-> Doc(EmptyMap, AppendedUploads(uploads, item).items),
                           reply |-> ReplyWith(u, "path", EmptyMap, <<item>>)]]
                    /\ UNCHANGED output
    /\ UNCHANGED <<register_conv, plan_conv, user_data, modelsFile, uploadsFile, now, probe>>

\* _save_json: the data is written to the temporary file
_save_json_write(u) ==
    /\ saving[u].stage = "loaded"
    /\ saving' = [saving EXCEPT ![u].stage = "written"]
    /\ IF saving[u].kind = "models"
       THEN /\ modelsFile' = TargetWhileWriting(modelsFile, EmptyMap)
            /\ UNCHANGED uploadsFile
       ELSE /\ uploadsFile' = TargetWhileWriting(uploadsFile, [items |-> <<>>])
            /\ UNCHANGED modelsFile
    /\ UNCHANGED <<register_conv, plan_conv, user_data, now, output, nEvents, probe>>

\* the data is merged into the stored document instead of replacing it
_save_json_replace_Merging(u) ==
    /\ saving[u].stage = "written"
    /\ saving' = [saving EXCEPT ![u] = NoSaving]
    /\ IF saving[u].kind = "models"
       THEN /\ modelsFile' = _save_json(saving[u].new.models @@ modelsFile.content)
            /\ register_conv' = [register_conv EXCEPT ![u] = NoState]
            /\ UNCHANGED <<uploadsFile, plan_conv>>
       ELSE /\ uploadsFile' = _save_json([items |-> saving[u].new.items])
            /\ plan_conv' = [plan_conv EXCEPT ![u] = NoState]
            /\ UNCHANGED <<modelsFile, register_conv>>
    /\ output' = saving[u].reply
    /\ user_data' = [user_data EXCEPT ![u] = EmptyMap]
    /\ UNCHANGED <<now, nEvents, probe>>

\* _save_json: os.replace(tmp, path); then the handler replies, clears the
\* scratch and returns ConversationHandler.END
_save_json_replace(u) ==
    /\ saving[u].stage = "written"
    /\ saving' = [saving EXCEPT ![u] = NoSaving]
    /\ IF saving[u].kind = "models"
       THEN /\ modelsFile' = _save_json(saving[u].new.models)
            /\ register_conv' = [register_conv EXCEPT ![u] = NoState]
            /\ UNCHANGED <<uploadsFile, plan_conv>>
       ELSE /\ uploadsFile' = _save_json([items |-> saving[u].new.items])
            /\ plan_conv' = [plan_conv EXCEPT ![u] = NoState]
            /\ UNCHANGED <<modelsFile, register_conv>>
    /\ output' = saving[u].reply
    /\ user_data' = [user_data EXCEPT ![u] = EmptyMap]
    /\ UNCHANGED <<now, nEvents, probe>>

\* the exception is swallowed: the handler clears the scratch and ends the flow
_save_json_raises_Swallowed(u) ==
    /\ saving[u].stage \in {"loaded", "written"}
    /\ saving' = [saving EXCEPT ![u] = NoSaving]
    /\ output' = Raised(u, "OSError")
    /\ user_data' = [user_data EXCEPT ![u] = EmptyMap]
    /\ IF saving[u].kind = "models"
       THEN register_conv' = [register_conv EXCEPT ![u] = NoState] /\ UNCHANGED plan_conv
       ELSE plan_conv' = [plan_conv EXCEPT ![u] = NoState] /\ UNCHANGED register_conv
    /\ UNCHANGED <<modelsFile, uploadsFile, now, nEvents, probe>>

\* _save_json raises while writing the temporary file or in os.replace:
\* the exception leaves the handler
_save_json_raises(u) ==
    /\ saving[u].stage \in {"loaded", "written"}
    /\ saving' = [saving EXCEPT ![u] = NoSaving]
    /\ output' = Raised(u, "OSError")
    /\ UNCHANGED <<register_conv, plan_conv, user_data, modelsFile, uploadsFile, now,
                   nEvents, probe>>

\* the name each user is registering
NameOf(u) == IF u = "u1" THEN TextFoto ELSE TextSeven

\* the positions of a user: idle, or at a step of one flow
Positions ==
    {<<"idle", NoState>>}
    \cup {<<"register", st>> : st \in {S_MODEL_NAME, S_COUNTRY, S_AGE, S_TAGS}}
    \cup {<<"plan", st>> : st \in {S_MODEL_NAME, S_TYPE, S_CATEGORY}}

\* the scratch of a user at a position, as the handlers of the steps before
\* it leave it: register_model_name, register_country, register_age;
\* plan_pick_model, plan_type
ScratchAt(pos, name) ==
    LET answers == [k \in {"model_name", "country", "age", "plan_model_id", "plan_type"} |->
                      CASE k = "model_name" -> Strip(name)
                        [] k = "country" -> Strip(TextBang)
                        [] k = "age" -> AgeOf(Strip(TextSeven))
                        [] k = "plan_model_id" -> slugify(Strip(TextVideo))
                        [] k = "plan_type" -> slugify(Strip(TextFoto))]
        keys == IF pos[1] = "register"
                THEN CASE pos[2] = S_MODEL_NAME -> {}
                       [] pos[2] = S_COUNTRY -> {"model_name"}
                       [] pos[2] = S_AGE -> {"model_name", "country"}
                       [] pos[2] = S_TAGS -> {"model_name", "country", "age"}
                ELSE IF pos[1] = "plan"
                THEN CASE pos[2] = S_MODEL_NAME -> {}
                       [] pos[2] = S_TYPE -> {"plan_model_id"}
                       [] pos[2] = S_CATEGORY -> {"plan_model_id", "plan_type"}
                ELSE {}
    IN  [k \in keys |-> answers[k]]

\* The run is taken up in a window where each user is idle or at a step of
\* one flow; an earlier run registered one model.
InitStore ==
    /\ \E at \in [StoreUsers -> Positions] :
          /\ register_conv = [u \in StoreUsers |->
                                IF at[u][1] = "register" THEN at[u][2] ELSE NoState]
          /\ plan_conv = [u \in StoreUsers |->
                            IF at[u][1] = "plan" THEN at[u][2] ELSE NoState]
          /\ user_data = [u \in StoreUsers |-> ScratchAt(at[u], NameOf(u))]
    /\ modelsFile = _save_json(EarlierModels)
    /\ \/ uploadsFile = NoFile([items |-> <<>>])
       \/ uploadsFile = _save_json(EarlierUploads)
    /\ now = 0
    /\ output = NoOutput
    /\ nEvents = 0
    /\ saving = [u \in StoreUsers |-> NoSaving]
    /\ probe = NoProbe

\* the bot thread takes the next update: no handler is running
BotTurn == nEvents < MaxStoreEvents /\ ~HandlerRunning

\* the Flask thread serves a request
WebTurn == nEvents < MaxStoreEvents

\* the updates and requests of the window observed; the clock stands still
NextStore ==
    \/ \E u \in StoreUsers : BotTurn /\ cmd_start(u)
    \/ \E u \in StoreUsers, readOk \in BOOLEAN : BotTurn /\ cmd_models(u, readOk)
    \/ \E u \in StoreUsers, readOk \in BOOLEAN : BotTurn /\ cmd_last(u, readOk)
    \/ \E u \in StoreUsers : BotTurn /\ register_start(u)
    \/ \E u \in StoreUsers, text \in StoreTexts : BotTurn /\ register_model_name(u, text)
    \/ \E u \in StoreUsers, text \in StoreTexts : BotTurn /\ register_country(u, text)
    \/ \E u \in StoreUsers, text \in StoreTexts : BotTurn /\ register_age(u, text)
    \/ \E u \in StoreUsers, text \in StoreTexts, readOk \in BOOLEAN :
          register_tags_load(u, text, readOk)
    \/ \E u \in StoreUsers, readOk \in BOOLEAN : BotTurn /\ plan_start(u, readOk)
    \/ \E u \in StoreUsers, text \in StoreTexts, readOk \in BOOLEAN :
          BotTurn /\ plan_pick_model(u, text, readOk)
    \/ \E u \in StoreUsers, text \in StoreTexts : BotTurn /\ plan_type(u, text)
    \/ \E u \in StoreUsers, text \in StoreTexts, modelsReadOk \in BOOLEAN,
             uploadsReadOk \in BOOLEAN :
          plan_category_load(u, text, modelsReadOk, uploadsReadOk)
    \/ \E u \in StoreUsers : _save_json_write(u)
    \/ \E u \in StoreUsers : _save_json_replace(u)
    \/ \E u \in StoreUsers : _save_json_raises(u)
    \/ \E u \in StoreUsers : BotTurn /\ cancel(u)
    \/ \E u \in StoreUsers, upd \in {Command("cancel")} \cup {TextMessage(t) : t \in StoreTexts} :
          BotTurn /\ Unhandled(u, upd)
    \/ \E readOk \in BOOLEAN : WebTurn /\ home(readOk)
    \/ \E readOk \in BOOLEAN : WebTurn /\ api_models(readOk)
    \/ \E readOk \in BOOLEAN : WebTurn /\ api_uploads(readOk)
    \/ \E readOk \in BOOLEAN : WebTurn /\ feed(readOk)

SpecStore == InitStore /\ [][NextStore]_vars

\* the steps a committing handler takes after its load
HandlerSteps ==
    \E u \in StoreUsers : _save_json_write(u) \/ _save_json_replace(u) \/ _save_json_raises(u)

\* A handler that has loaded runs to its end (the event loop resumes it),
\* and the updates and requests of the window do arrive.
SpecStoreFair == SpecStore /\ WF_vars(HandlerSteps) /\ WF_vars(NextStore)

\* the document of a kind as a reader gets it from the files
StoredIn(kind, mFile, uFile) ==
    IF kind = "models"
    THEN Doc(_load_json(mFile, EmptyMap, TRUE), <<>>)
    ELSE Doc(EmptyMap, _load_json(uFile, [items |-> <<>>], TRUE).items)

\* the document of the kind user u is saving, as a reader gets it now
Stored(u) == StoredIn(saving[u].kind, modelsFile, uploadsFile)

\* user u is inside a committing handler: it has loaded and has not yet replaced
Saving(u) == saving[u].stage # "none"

(***************************************************************************)
(* C11.  A save is atomic for the status surface: a web request that reads *)
(* a document while a handler is saving it (after the load, while the      *)
(* temporary file is written, before os.replace) responds with the         *)
(* complete document as it was before the save or the complete document    *)
(* being saved, never anything else.  Stated for readable files.           *)
(***************************************************************************)
C11_SaveIsAtomicForReaders ==
    [][\A u \in StoreUsers :
          Saving(u) =>
            /\ (saving[u].kind = "models" /\ api_models(TRUE))
                  => output'.models \in {saving[u].old.models, saving[u].new.models}
            /\ (saving[u].kind = "uploads" /\ api_uploads(TRUE))
                  => output'.items \in {saving[u].old.items, saving[u].new.items}
            /\ (saving[u].kind = "uploads" /\ feed(TRUE))
                  => output'.items \in {Reversed(saving[u].old.items),
                                        Reversed(saving[u].new.items)}
            /\ (saving[u].kind = "uploads" /\ home(TRUE))
                  => output'.items \in {Take(Reversed(saving[u].old.items), 6),
                                        Take(Reversed(saving[u].new.items), 6)}]_vars

\* a response with the old models document while the temporary file of a
\* different new document is written and not yet moved over the target
C11_ReadDuringSave ==
    \E u \in StoreUsers :
        /\ saving[u].stage = "written"
        /\ saving[u].kind = "models"
        /\ saving[u].old # saving[u].new
        /\ output = Response("/api/models", saving[u].old.models, <<>>)

C14_LoadReturnsLastSave ==
    [][/\ \A u \in StoreUsers :
             _save_json_replace(u) =>
               /\ saving[u].kind = "models"
                     => _load_json(modelsFile', EmptyMap, TRUE) = saving[u].new.models
               /\ saving[u].kind = "uploads"
                     => _load_json(uploadsFile', [items |-> <<>>], TRUE)
                          = [items |-> saving[u].new.items]
       /\ modelsFile' # modelsFile
             => \E u \in StoreUsers : saving[u].kind = "models" /\ _save_json_replace(u)
       /\ uploadsFile' # uploadsFile
             => \E u \in StoreUsers : saving[u].kind = "uploads" /\ _save_json_replace(u)
       /\ api_models(TRUE) /\ modelsFile.exists => output'.models = modelsFile.content
       /\ api_uploads(TRUE) /\ uploadsFile.exists => output'.items = uploadsFile.content.items]_vars

\* a second save has completed whose document does not hold the record of
\* the first: the earlier registration is gone from the file
C14_SecondSaveReplacedFirst ==
    /\ output.chan = "chat" /\ output.what = "registered"
    /\ modelsFile.exists
    /\ ModelIdOf(TextVideo, 0) \notin DOMAIN modelsFile.content

(***************************************************************************)
(* C18.  When the save of a committing step raises, the request is aborted *)
(* with the state unchanged: the target document has its previous content, *)
(* the user is still at the committing step and the scratch still holds    *)
(* the collected values.                                                   *)
(***************************************************************************)
C18_FailedSaveChangesNothing ==
    [][\A u \in StoreUsers :
          _save_json_raises(u) =>
            /\ output' = Raised(u, "OSError")
            /\ StoredIn(saving[u].kind, modelsFile', uploadsFile') = saving[u].old
            /\ saving[u].kind = "models"
                  => /\ register_conv'[u] = S_TAGS
                     /\ {"model_name", "country", "age"} \subseteq DOMAIN user_data'[u]
            /\ saving[u].kind = "uploads"
                  => /\ plan_conv'[u] = S_CATEGORY
                     /\ register_conv'[u] = NoState
                     /\ {"plan_model_id", "plan_type"} \subseteq DOMAIN user_data'[u]
            /\ user_data'[u] = user_data[u]]_vars

\* a save has raised after the temporary file was written
C18_SaveRaised ==
    \E u \in StoreUsers :
        /\ output = Raised(u, "OSError")
        /\ register_conv[u] = S_TAGS
        /\ "model_name" \in DOMAIN user_data[u]

(***************************************************************************)
(* C13.  load never raises and never returns garbage: when the file is     *)
(* absent or reading it fails, the request that loads gets the empty       *)
(* default of the kind (an empty mapping, an empty items list), and the    *)
(* load leaves both files and all conversation state as they were.         *)
(***************************************************************************)
C13_LoadFallsBackToDefault ==
    [][\A readOk \in BOOLEAN :
          /\ (~modelsFile.exists \/ ~readOk) =>
               /\ api_models(readOk)
                    => /\ output'.models = EmptyMap
                       /\ UNCHANGED <<modelsFile, uploadsFile, register_conv, plan_conv, user_data>>
               /\ \A u \in Users :
                    /\ cmd_models(u, readOk)
                         => /\ output' = Reply(u, "no_models")
                            /\ UNCHANGED <<modelsFile, uploadsFile, register_conv, plan_conv,
                                           user_data>>
                    /\ plan_start(u, readOk)
                         => /\ output' = Reply(u, "register_first")
                            /\ UNCHANGED <<modelsFile, uploadsFile, register_conv, user_data>>
          /\ (~uploadsFile.exists \/ ~readOk) =>
               /\ (api_uploads(readOk) \/ feed(readOk) \/ home(readOk))
                    => /\ output'.items = <<>>
                       /\ UNCHANGED <<modelsFile, uploadsFile, register_conv, plan_conv, user_data>>
               /\ \A u \in Users :
                    cmd_last(u, readOk)
                      => /\ output' = Reply(u, "no_uploads")
                         /\ UNCHANGED <<modelsFile, uploadsFile, register_conv, plan_conv,
                                        user_data>>]_vars

\* the models document was requested, the read of the file that holds a
\* registration failed, and the response is the empty mapping
C13_DefaultServedForUnreadableFile ==
    /\ output = Response("/api/models", EmptyMap, <<>>)
    /\ modelsFile.exists
    /\ modelsFile.content # EmptyMap

(***************************************************************************)
(* C15.  A text message that is not a command, sent by an idle user, is    *)
(* ignored: the user's conversation state and scratch and both documents   *)
(* stay as they are, and nothing is replied.                               *)
(***************************************************************************)
C15_IdleTextIgnored ==
    [][\A u \in Users, text \in Texts, modelsReadOk \in BOOLEAN, uploadsReadOk \in BOOLEAN :
          (Idle(u) /\ SendsText(u, text, modelsReadOk, uploadsReadOk))
            => /\ output' = NoOutput
               /\ UNCHANGED <<register_conv, plan_conv, user_data, modelsFile, uploadsFile>>]_vars

\* an update was received after a registration was stored, every user is
\* idle, and nothing was replied
C15_NothingReplied ==
    /\ nEvents > 0
    /\ output = NoOutput
    /\ \A u \in Users : Idle(u) /\ user_data[u] = EmptyMap
    /\ modelsFile.exists

(***************************************************************************)
(* C19.  Whenever the plan flow of a user is at pick_type the scratch      *)
(* holds the picked model id, and at pick_category it holds the model id   *)
(* and the type, whatever the user sent before.                            *)
(***************************************************************************)
C19_ScratchHoldsPicks ==
    \A u \in Users :
        /\ plan_conv[u] = S_TYPE => "plan_model_id" \in DOMAIN user_data[u]
        /\ plan_conv[u] = S_CATEGORY
             => {"plan_model_id", "plan_type"} \subseteq DOMAIN user_data[u]

(***************************************************************************)
(* C20.  The model id validated at pick_model is a key of the models       *)
(* mapping when pick_category looks it up, so the lookup never fails; and  *)
(* the model_id of every stored upload is a key of the models mapping.     *)
(***************************************************************************)
C20_UploadsReferToModels ==
    /\ \A i \in 1..Len(Items) : Items[i].model_id \in DOMAIN Models
    /\ \A u \in Users :
          ~(/\ output = Raised(u, "KeyError")
            /\ {"plan_model_id", "plan_type"} \subseteq DOMAIN user_data[u])

(***************************************************************************)
(* slugify applied on its own, to every string of up to MaxLen characters  *)
(* over one character of each class it distinguishes: a lower-case and an  *)
(* upper-case alphanumeric, a space (stripped at the ends, a hyphen        *)
(* inside), a punctuation mark mapped to a hyphen, the underscore, the     *)
(* hyphen, and a symbol that is dropped.                                   *)
(***************************************************************************)
SlugAlphabet == {"a", "A", " ", ".", "_", "-", "!"}

SlugInputs == UNION {[1..n -> SlugAlphabet] : n \in 0..MaxLen}

InitSlug ==
    /\ register_conv = [u \in Users |-> NoState]
    /\ plan_conv = [u \in Users |-> NoState]
    /\ user_data = [u \in Users |-> EmptyMap]
    /\ modelsFile = NoFile(EmptyMap)
    /\ uploadsFile = NoFile([items |-> <<>>])
    /\ now = 0
    /\ output = NoOutput
    /\ nEvents = 0
    /\ saving = [u \in Users |-> NoSaving]
    /\ \E s \in SlugInputs : probe = [NoProbe EXCEPT !.fn = "given", !.arg = s]

\* slugify(arg)
slugify_once ==
    /\ probe.fn = "given"
    /\ probe' = [probe EXCEPT !.fn = "once", !.once = slugify(probe.arg)]
    /\ UNCHANGED <<register_conv, plan_conv, user_data, modelsFile, uploadsFile, now, output,
                   nEvents, saving>>

\* slugify(slugify(arg))
slugify_twice ==
    /\ probe.fn = "once"
    /\ probe' = [probe EXCEPT !.fn = "twice", !.twice = slugify(probe.once)]
    /\ UNCHANGED <<register_conv, plan_conv, user_data, modelsFile, uploadsFile, now, output,
                   nEvents, saving>>

NextSlug == slugify_once \/ slugify_twice

SpecSlug == InitSlug /\ [][NextSlug]_vars

(***************************************************************************)
(* C17.  Normalization is idempotent: for every string over the characters *)
(* it distinguishes, normalizing the normalized string gives the           *)
(* normalized string.                                                      *)
(***************************************************************************)
C17_SlugifyIdempotent == probe.fn = "twice" => probe.twice = probe.once

\* normalized twice, a string that the first normalization changed by
\* collapsing a run of three hyphens between two letters
C17_CollapsedTwice ==
    /\ probe.fn = "twice"
    /\ probe.once # <<>>
    /\ probe.once # probe.arg
    /\ \E i \in 2..(Len(probe.arg) - 3) :
          /\ \A j \in i..(i + 2) : probe.arg[j] = "-"
          /\ IsAlnum(probe.arg[i - 1]) /\ IsAlnum(probe.arg[i + 3])

(***************************************************************************)
(* The registration of "Aurora" from "Perú" and a plan for her.  The run   *)
(* is taken up where the user has answered the name and the country and is *)
(* asked for the age; the texts sent from there on are those of the        *)
(* example.                                                                *)
(***************************************************************************)
TextAurora == <<"A","u","r","o","r","a">>
TextPeru == <<"P","e","r","ú">>
TextLowerVideo == <<"v","i","d","e","o">>
TextTeaser == <<"T","e","a","s","e","r","!">>

AuroraTexts == {TextAurora, TextPeru, TextLowerVideo, TextTeaser}

InitAurora ==
    /\ register_conv = [u \in Users |-> S_AGE]
    /\ plan_conv = [u \in Users |-> NoState]
    /\ user_data = [u \in Users |->
                      DictSet(DictSet(EmptyMap, "model_name", Strip(TextAurora)),
                              "country", Strip(TextPeru))]
    /\ modelsFile = NoFile(EmptyMap)
    /\ uploadsFile = NoFile([items |-> <<>>])
    /\ now = 0
    /\ output = NoOutput
    /\ nEvents = 0
    /\ saving = [u \in Users |-> NoSaving]
    /\ probe = NoProbe

NextAurora ==
    \/ \E u \in Users : cmd_start(u)
    \/ \E u \in Users, readOk \in BOOLEAN : cmd_models(u, readOk)
    \/ \E u \in Users, readOk \in BOOLEAN : cmd_last(u, readOk)
    \/ \E u \in Users : register_start(u)
    \/ \E u \in Users, text \in AuroraTexts : register_model_name(u, text)
    \/ \E u \in Users, text \in AuroraTexts : register_country(u, text)
    \/ \E u \in Users, text \in AuroraTexts : register_age(u, text)
    \/ \E u \in Users, text \in AuroraTexts, readOk \in BOOLEAN : register_tags(u, text, readOk)
    \/ \E u \in Users, readOk \in BOOLEAN : plan_start(u, readOk)
    \/ \E u \in Users, text \in AuroraTexts, readOk \in BOOLEAN : plan_pick_model(u, text, readOk)
    \/ \E u \in Users, text \in AuroraTexts : plan_type(u, text)
    \/ \E u \in Users, text \in AuroraTexts, modelsReadOk \in BOOLEAN, uploadsReadOk \in BOOLEAN :
          plan_category(u, text, modelsReadOk, uploadsReadOk)
    \/ \E u \in Users : cancel(u)
    \/ \E u \in Users, upd \in {Command("cancel")} \cup {TextMessage(t) : t \in AuroraTexts} :
          Unhandled(u, upd)
    \/ \E readOk \in BOOLEAN : home(readOk)
    \/ \E readOk \in BOOLEAN : api_models(readOk)
    \/ \E readOk \in BOOLEAN : api_uploads(readOk)
    \/ \E readOk \in BOOLEAN : feed(readOk)
    \/ Tick

SpecAurora == InitAurora /\ [][NextAurora]_vars

(***************************************************************************)
(* C16.  Registering the name "Aurora" with the country "Perú" and then    *)
(* planning with the type "video" and the category "Teaser!" records the   *)
(* path "peru/aurora/video/teaser/<date>/" with the date of the plan: the  *)
(* accented letter reduced to its plain form, the punctuation dropped, the *)
(* case lowered.                                                           *)
(***************************************************************************)
C16_AuroraPath ==
    \A i \in 1..Len(Items) :
        (/\ Items[i].model_name = TextAurora
         /\ Items[i].country = TextPeru
         /\ Items[i].type = <<"v","i","d","e","o">>
         /\ Items[i].category = <<"t","e","a","s","e","r">>)
          => Items[i].path
               = <<"p","e","r","u","/","a","u","r","o","r","a","/","v","i","d","e","o","/",
                   "t","e","a","s","e","r","/">> \o Items[i].date \o <<"/">>

=============================================================================
